---- MODULE Spec2Model ----
(***************************************************************************)
(* A model of the AI fitness agent: the deterministic diet calculator and  *)
(* the search adapters of tools/fitness_tools.py, and the session registry *)
(* and request handlers of app.py.                                         *)
(*                                                                         *)
(* Three specifications share the module's variables:                      *)
(*   SpecDiet    calculate_diet_plan applied to a grid of inputs           *)
(*   SpecSearch  find_youtube_workout_video and get_calories_for_food      *)
(*               applied to every outcome of the external search call      *)
(*   Spec        the session registry and the three request handlers,      *)
(*               one step per statement that another request can observe   *)
(* Each specification pins the variables of the other two to Idle values.  *)
(***************************************************************************)
EXTENDS Integers, Sequences, FiniteSets, TLC

VARIABLES
    args,       \* SpecDiet: the body metrics one run of the calculator is given
    plans,      \* SpecDiet: goal -> the DietPlan returned for it, or NoPlan
    tavily,     \* SpecSearch: what the search service does when it is called
    lookup,     \* SpecSearch: adapter -> its call (argument and how it ended), or NoCall
    sessions,   \* Spec: the module-level dict of app.py: session id -> reference
    heap,       \* Spec: reference -> the session dict it denotes (a dict that was
                \* replaced in `sessions` lives on while a request holds it)
    pc,         \* Spec: handler -> the statement its running request is at
    req,        \* Spec: handler -> arguments and locals of its running request
    res,        \* Spec: how the request that finished last ended
    chatbot,    \* Spec: session id -> the transcript the UI hands to respond_in_chat
    turns,      \* Spec: session id -> the chat turns made so far (history, for the claims)
    renderFailed, \* Spec: session id -> a plan of it could not be rendered (history)
    started     \* Spec: the number of requests made so far

dietVars == <<args, plans>>
searchVars == <<tavily, lookup>>
appVars == <<sessions, heap, pc, req, res, chatbot, turns, renderFailed, started>>
vars == <<args, plans, tavily, lookup, sessions, heap, pc, req, res, chatbot, turns,
          renderFailed, started>>

(***************************************************************************)
(* Numbers.  The calculator works in floating point; every constant of it  *)
(* is a multiple of 1/40 (activity multipliers) or 1/4 (6.25), so with     *)
(* integer metrics the calories are an exact multiple of 1/160.  The model *)
(* carries calories as that integer number of 160ths, and every quotient   *)
(* as an exact fraction num/den rounded the way Python's round() does      *)
(* (to nearest, ties to the even integer).                                 *)
(***************************************************************************)

\* Python 3 round(num/den) for den > 0: nearest integer, ties to even.
round(num, den) ==
    LET q == num \div den          \* floor, also for negative num
        r == num % den             \* 0 .. den-1
    IN  IF 2 * r < den THEN q
        ELSE IF 2 * r > den THEN q + 1
        ELSE IF q % 2 = 0 THEN q ELSE q + 1

\* str.lower() on the strings the model feeds in.
lower(s) ==
    CASE s = "Male" -> "male"
      [] s = "FEMALE" -> "female"
      [] s = "Moderate" -> "moderate"
      [] s = "ACTIVE" -> "active"
      [] OTHER -> s

\* calories are carried in units of 1/CalUnit kcal: bmr in quarters (6.25 = 25/4)
\* times the activity multiplier in fortieths.
CalUnit == 4 * 40

\* The two Mifflin-St Jeor constants and the goal offset, in kcal.
MaleConst == 5
FemaleConst == 161
GoalOffset == 400
\* carbs_g of the weight_loss branch: a literal, not a formula.
WeightLossCarbs == 150

\* bmr * 4:  10*w + 6.25*h - 5*a + 5   or   ... - 161
bmr4(weight_kg, height_cm, age, gender) ==
    IF lower(gender) = "male"
    THEN 40 * weight_kg + 25 * height_cm - 20 * age + 4 * MaleConst
    ELSE 40 * weight_kg + 25 * height_cm - 20 * age - 4 * FemaleConst

\* activity_multipliers.get(activity_level.lower(), 1.55) * 40
\*   1.2 = 48/40, 1.375 = 55/40, 1.55 = 62/40, 1.725 = 69/40
activity_multiplier40(activity_level) ==
    LET a == lower(activity_level)
    IN  CASE a = "sedentary" -> 48
          [] a = "light" -> 55
          [] a = "moderate" -> 62
          [] a = "active" -> 69
          [] OTHER -> 62

\* A slip the check must notice: muscle_gain adding twice the offset.
goal_offset_doubled(goal) ==
    IF goal = "weight_loss" THEN 0 - GoalOffset
    ELSE IF goal = "muscle_gain" THEN 2 * GoalOffset
    ELSE 0

\* The goal's offset in kcal: calories -= 400, calories += 400, or none.
goal_offset(goal) ==
    IF goal = "weight_loss" THEN 0 - GoalOffset
    ELSE IF goal = "muscle_gain" THEN GoalOffset
    ELSE 0

calories160(goal, weight_kg, height_cm, age, gender, activity_level) ==
    bmr4(weight_kg, height_cm, age, gender) * activity_multiplier40(activity_level)
        + CalUnit * goal_offset(goal)

\* A slip the check must notice: weight_loss carbs as a share of the calories,
\* like the other two branches.
macros_raw_all_shares(goal, weight_kg, cal160) ==
    [protein_g |-> [num |-> (IF goal = "muscle_gain" THEN 20 ELSE 18) * weight_kg,
                    den |-> 10],
     carbs_g   |-> [num |-> cal160 * (IF goal = "muscle_gain" THEN 40 ELSE 45),
                    den |-> CalUnit * 100 * 4],
     fat_g     |-> [num |-> cal160 * (IF goal = "muscle_gain" THEN 30 ELSE 25),
                    den |-> CalUnit * 100 * 9]]

\* The macros dictionary before rounding, each entry an exact fraction.
\*   weight_loss: protein 1.8 w, carbs 150,          fat cal*0.25/9
\*   muscle_gain: protein 2.0 w, carbs cal*0.4/4,    fat cal*0.3/9
\*   otherwise:   protein 1.8 w, carbs cal*0.45/4,   fat cal*0.25/9
macros_raw(goal, weight_kg, cal160) ==
    IF goal = "weight_loss" THEN
        [protein_g |-> [num |-> 18 * weight_kg, den |-> 10],
         carbs_g   |-> [num |-> WeightLossCarbs, den |-> 1],
         fat_g     |-> [num |-> cal160 * 25, den |-> CalUnit * 100 * 9]]
    ELSE IF goal = "muscle_gain" THEN
        [protein_g |-> [num |-> 20 * weight_kg, den |-> 10],
         carbs_g   |-> [num |-> cal160 * 4, den |-> CalUnit * 10 * 4],
         fat_g     |-> [num |-> cal160 * 3, den |-> CalUnit * 10 * 9]]
    ELSE
        [protein_g |-> [num |-> 18 * weight_kg, den |-> 10],
         carbs_g   |-> [num |-> cal160 * 45, den |-> CalUnit * 100 * 4],
         fat_g     |-> [num |-> cal160 * 25, den |-> CalUnit * 100 * 9]]

\* The returned dictionary (the fixed meal table is left out: no claim reads it).
calculate_diet_plan(goal, weight_kg, height_cm, age, gender, activity_level) ==
    LET cal160 == calories160(goal, weight_kg, height_cm, age, gender, activity_level)
        m == macros_raw(goal, weight_kg, cal160)
    IN  [daily_calories |-> round(cal160, CalUnit),
         macros |-> [k \in {"protein_g", "carbs_g", "fat_g"} |->
                        round(m[k].num, m[k].den)]]

(***************************************************************************)
(* The search adapters.  A Python string is a sequence of tokens (a URL is *)
(* cut at the places the two patterns can begin or end), `in` is a search  *)
(* for a contiguous run of tokens, and an f-string is a concatenation.     *)
(* A Python value carries its type: None, a str, or a list of items; an    *)
(* item is a dict or not; a dict key is absent, None or a str.             *)
(***************************************************************************)

\* pattern in text, both token sequences (Python's `in` on two strings).
Contains(pattern, text) ==
    \E i \in 0..(Len(text) - Len(pattern)) :
        \A j \in 1..Len(pattern) : text[i + j] = pattern[j]

\* How a call ends: it returns a value of some type, or an exception leaves it.
Return(type, tokens) == [raised |-> FALSE, exc |-> "", type |-> type, value |-> tokens]
Raise(exc) == [raised |-> TRUE, exc |-> exc, type |-> "", value |-> <<>>]

\* A dict entry: absent, None, a str, or a (non-zero) number.
Absent == [k |-> "absent", v |-> <<>>]
None == [k |-> "none", v |-> <<>>]
Str(tokens) == [k |-> "str", v |-> tokens]
Number(digits) == [k |-> "int", v |-> <<digits>>]

\* dict.get(key, default) where default is a str.
get(field, default) == IF field.k = "absent" THEN Str(default) ELSE field

\* f"{x}" of a dict entry's value: None prints as the word None.
format(field) == IF field.k = "none" THEN <<"None">> ELSE field.v

\* Python truthiness of a dict entry from .get(key): absent gives None.
truthy_field(field) == (field.k = "str" /\ field.v # <<>>) \/ field.k = "int"

\* Python truthiness of the value invoke() returned.
truthy(results) ==
    CASE results.tag = "none" -> FALSE
      [] results.tag = "str" -> results.str # <<>>
      [] OTHER -> results.items # <<>>

NotADict == [tag |-> "str", url |-> Absent, title |-> Absent, content |-> Absent]

\* What iterating or indexing the value yields: the items of a list, the
\* one-character strings of a str.
elements(results) ==
    IF results.tag = "list" THEN results.items
    ELSE [i \in 1..Len(results.str) |-> NotADict]

\* Line 93: "youtube.com/watch" in url or "youtu.be/" in url.
is_youtube_url(url) ==
    \/ Contains(<<"youtube.com/", "watch">>, url)
    \/ Contains(<<"youtu.be/">>, url)

CouldNotFind == "Could not find"

\* A slip the check must notice: looking at the first result only, the way
\* get_calories_for_food does.
scan_first_only(workout_type, items, i) ==
    IF items = <<>> \/ i > 1
    THEN Return("str", <<CouldNotFind, " a direct YouTube video link in search results.">>)
    ELSE IF items[1].tag # "dict" THEN Raise("AttributeError")
    ELSE LET url_to_check == get(items[1].url, <<>>)
             title == get(items[1].title, <<workout_type, " Workout Video">>)
         IN  IF url_to_check.k = "none" THEN Raise("TypeError")
             ELSE IF is_youtube_url(url_to_check.v)
             THEN Return("str", <<"[">> \o format(title) \o <<"](">>
                                 \o url_to_check.v \o <<")">>)
             ELSE Return("str", <<CouldNotFind,
                                  " a direct YouTube video link in search results.">>)

\* Lines 88-98: the loop over the results from position i on.
RECURSIVE scan_results(_, _, _)
scan_results(workout_type, items, i) ==
    IF i > Len(items)
    THEN Return("str", <<CouldNotFind, " a direct YouTube video link in search results.">>)
    ELSE IF items[i].tag # "dict" THEN Raise("AttributeError")   \* res_dict.get
    ELSE LET url_to_check == get(items[i].url, <<>>)
             title == get(items[i].title, <<workout_type, " Workout Video">>)
         IN  IF url_to_check.k = "none" THEN Raise("TypeError")  \* "..." in None
             ELSE IF is_youtube_url(url_to_check.v)
             THEN Return("str", <<"[">> \o format(title) \o <<"](">>
                                 \o url_to_check.v \o <<")">>)
             ELSE scan_results(workout_type, items, i + 1)

\* Lines 80-82 and 109-111: building the client and calling the service.  The
\* outcome is an exception or the value results is bound to.
search_invoke(world) ==
    IF ~world.api_key THEN Raise("ValidationError")       \* TavilySearchResults(...)
    ELSE IF world.fails THEN Raise("ConnectionError")     \* tavily_search.invoke
    ELSE Return("results", <<>>)

\* A slip the check must notice: catching the transport error only.
except_transport_only(outcome, message) ==
    IF outcome.raised /\ outcome.exc = "ConnectionError"
    THEN Return("str", <<CouldNotFind, message, outcome.exc>>)
    ELSE outcome

\* except Exception as e: return f"Could not find ... due to an error: {e}"
except_Exception(outcome, message) ==
    IF outcome.raised
    THEN Return("str", <<CouldNotFind, message, outcome.exc>>)
    ELSE outcome

\* Lines 79-100.
find_youtube_workout_video(workout_type, world) ==
    LET called == search_invoke(world)
        body ==
            IF called.raised THEN called
            ELSE IF ~truthy(world.results)
            THEN Return("str", <<CouldNotFind,
                                 " any relevant search results for a video.">>)
            ELSE scan_results(workout_type, elements(world.results), 1)
    IN  except_Exception(body, " a video link due to an error: ")

\* Lines 108-121.
get_calories_for_food(food_item, world) ==
    LET called == search_invoke(world)
        body ==
            IF called.raised THEN called
            ELSE IF ~truthy(world.results)
            THEN Return("str", <<CouldNotFind, " calorie information.">>)
            ELSE LET first == elements(world.results)[1]
                 IN  IF first.tag # "dict" THEN Raise("AttributeError")
                     ELSE IF truthy_field(first.content)
                     THEN Return(first.content.k, first.content.v)
                     ELSE Return("str", <<CouldNotFind,
                                  " calorie information in the search results.">>)
    IN  except_Exception(body, " calorie information due to an error: ")

(***************************************************************************)
(* app.py: the session registry and the three request handlers.            *)
(*                                                                         *)
(* Gradio runs each event listener in a worker thread, one call of a       *)
(* listener at a time and different listeners side by side, so a handler   *)
(* is a thread and a step is one statement (or a run of statements no      *)
(* other thread can tell apart).  The agent is opaque: create_agent and    *)
(* agent_executor.invoke either raise or return, invoke with any output.   *)
(***************************************************************************)
SessionIds == {"A", "B"}
Handlers == {"generate_initial_plan", "respond_in_chat", "handle_calorie_lookup"}

\* user_details as generate_initial_plan writes it (lines 94-97), and {}.
EmptyDetails ==
    [goal |-> "", weight_kg |-> 0, height_cm |-> 0, age |-> 0, gender |-> "",
     activity_level |-> "", experience_level |-> ""]
Profiles ==
    { [goal |-> "weight_loss", weight_kg |-> 85, height_cm |-> 180, age |-> 32,
       gender |-> "male", activity_level |-> "light", experience_level |-> "beginner"],
      [goal |-> "muscle_gain", weight_kg |-> 60, height_cm |-> 165, age |-> 28,
       gender |-> "female", activity_level |-> "active",
       experience_level |-> "advanced"] }

\* The keys render_plan_from_json reads from the plan envelope.
PlanKeys == {"diet_plan", "workout_plan", "motivational_content"}

\* The text an agent run ends with: not JSON, a JSON array, or a JSON object
\* with some of the keys, each value of the expected type ("ok") or a string.
Object(members) == [json |-> "object", members |-> members]
NotJson == [json |-> "invalid", members |-> <<>>]
JsonArray == [json |-> "array", members |-> <<>>]
FullPlan == Object([k \in PlanKeys |-> "ok"])
RawOutputs ==
    { FullPlan,
      Object([k \in {"diet_plan", "motivational_content"} |-> "ok"]),
      Object([k \in PlanKeys |-> IF k = "workout_plan" THEN "str" ELSE "ok"]),
      NotJson,
      JsonArray }

\* What agent_executor.invoke returns: a dict with or without the key "output".
Responses ==
    { [has_output |-> TRUE, output |-> o] : o \in RawOutputs }
    \cup { [has_output |-> FALSE, output |-> NotJson] }

\* response.get("output", "{}") of line 113.
response_output(response) ==
    IF response.has_output THEN response.output ELSE Object(<<>>)

\* json.loads: a JSONDecodeError for text that is not JSON, else the value.
json_loads(raw) ==
    IF raw.json = "invalid" THEN Raise("JSONDecodeError") ELSE Return(raw.json, <<>>)

NoData == [json |-> "null", members |-> <<>>]            \* plan_data None

\* The six values render_plan_from_json returns on its except path (line 85).
render_error(exc) ==
    [diet_md |-> <<"Error formatting plan: ", exc>>, meal_plan_rows |-> 0,
     workout_html |-> <<>>, quote_text |-> <<>>, fact_text |-> <<>>, data |-> NoData]

\* A slip the check must notice: indexing the envelope (data['diet_plan'])
\* instead of .get with a default, so that a missing key is a KeyError.
render_plan_requires_keys(raw) ==
    LET loaded == json_loads(raw)
    IN  IF loaded.raised THEN render_error(loaded.exc)
        ELSE IF raw.json # "object" THEN render_error("AttributeError")
        ELSE IF \E k \in PlanKeys : k \notin DOMAIN raw.members
        THEN render_error("KeyError")
        ELSE IF \E k \in DOMAIN raw.members : raw.members[k] # "ok"
        THEN render_error("AttributeError")
        ELSE [diet_md |-> <<"Your Nutrition Plan", "2102">>, meal_plan_rows |-> 7,
              workout_html |-> <<"<h3>Your Workout Plan</h3>", "<table>">>,
              quote_text |-> <<"Motivation Zone", "quote">>,
              fact_text |-> <<"Did you know?", "fact">>, data |-> raw]

\* Lines 44-85.  data.get(key, default) gives the default for a missing key;
\* .get on a list or a str, and DataFrame of a str, raise, and every exception
\* ends in the except path.
render_plan_from_json(raw) ==
    LET loaded == json_loads(raw)
        has(k) == k \in DOMAIN raw.members
    IN  IF loaded.raised THEN render_error(loaded.exc)
        ELSE IF raw.json # "object" THEN render_error("AttributeError")
        ELSE IF has("diet_plan") /\ raw.members["diet_plan"] # "ok"
        THEN render_error("AttributeError")
        ELSE IF has("workout_plan") /\ raw.members["workout_plan"] # "ok"
        THEN render_error("ValueError")
        ELSE IF has("motivational_content") /\ raw.members["motivational_content"] # "ok"
        THEN render_error("AttributeError")
        ELSE [diet_md |-> <<"Your Nutrition Plan",
                            IF has("diet_plan") THEN "2102" ELSE "N/A">>,
              meal_plan_rows |-> IF has("diet_plan") THEN 7 ELSE 0,
              workout_html |-> <<"<h3>Your Workout Plan</h3>",
                                 IF has("workout_plan") THEN "<table>"
                                 ELSE "<p>No workout plan generated.</p>">>,
              quote_text |-> <<"Motivation Zone",
                               IF has("motivational_content") THEN "quote" ELSE "...">>,
              fact_text |-> <<"Did you know?",
                              IF has("motivational_content") THEN "fact" ELSE "...">>,
              data |-> raw]

\* plan_context: "" at creation; line 119 writes the details and the plan into it.
NoContext == [written |-> FALSE, details |-> EmptyDetails, plan |-> NoData]

\* A slip the check must notice: one agent built at import time and put into
\* every session.
create_agent_shared(ref) == 1

\* create_agent() of agent_core.py: a new AgentExecutor at every call, named
\* here by the reference of the session dict it is made for.
create_agent(ref) == ref

\* The dict of lines 16-21.
new_session(ref) ==
    [agent_executor |-> create_agent(ref), user_details |-> EmptyDetails,
     plan_context |-> NoContext, chat_history |-> <<>>]

\* Chat messages (role, content).
Message(role, content) == [role |-> role, content |-> content]
UserMessages == {"swap jogging"}
Replies == {"try cycling"}
FoodItemsAsked == {"banana"}
InitialChatMessage == Message("assistant", "Ask me anything related to Fitness.")

\* How many requests the UI makes in a run.
MaxRequests == 3

NoRequest ==
    [sid |-> "", profile |-> EmptyDetails, message |-> "", session |-> 0,
     chat_history |-> <<>>, after_render_error |-> FALSE]
NoResult == [done |-> FALSE]

AppIdle ==
    /\ sessions = <<>>
    /\ heap = <<>>
    /\ pc = [h \in Handlers |-> "idle"]
    /\ req = [h \in Handlers |-> NoRequest]
    /\ res = NoResult
    /\ chatbot = [s \in SessionIds |-> <<>>]
    /\ turns = [s \in SessionIds |-> <<>>]
    /\ renderFailed = [s \in SessionIds |-> FALSE]
    /\ started = 0

(***************************************************************************)
(* SpecDiet: the calculator on a grid of inputs, once per goal.            *)
(***************************************************************************)
MaxWeight == 120
MaxHeight == 200
MaxAge == 90

Weights == {w \in 1..MaxWeight : w = 1 \/ w % 30 = 25}
Heights == {h \in 1..MaxHeight : h = 1 \/ h % 40 = 20}
Ages == {a \in 1..MaxAge : a = 1 \/ a % 29 = 3}
Genders == {"male", "Male", "female", "other"}
ActivityLevels == {"sedentary", "light", "moderate", "active", "Moderate", "couch"}
Goals == {"weight_loss", "maintenance", "muscle_gain", "bulk"}

NoPlan == [daily_calories |-> 0, macros |-> [k \in {} |-> 0]]
NoArgs == [weight_kg |-> 0, height_cm |-> 0, age |-> 0, gender |-> "", activity_level |-> ""]

\* The values the search variables hold while no search is modelled or made.
NoWorld == [api_key |-> FALSE, fails |-> FALSE,
            results |-> [tag |-> "none", str |-> <<>>, items |-> <<>>]]
NoCall == [arg |-> "", result |-> [raised |-> FALSE, exc |-> "", type |-> "", value |-> <<>>]]
NoLookups == [a \in {"find_youtube_workout_video", "get_calories_for_food"} |-> NoCall]

InitDiet ==
    /\ tavily = NoWorld
    /\ lookup = NoLookups
    /\ AppIdle
    /\ args \in [weight_kg : Weights, height_cm : Heights, age : Ages,
                 gender : Genders, activity_level : ActivityLevels]
    /\ plans = [g \in Goals |-> NoPlan]

CallDietPlan(goal) ==
    /\ plans[goal] = NoPlan
    /\ plans' = [plans EXCEPT ![goal] =
                    calculate_diet_plan(goal, args.weight_kg, args.height_cm, args.age,
                                        args.gender, args.activity_level)]
    /\ UNCHANGED <<args, searchVars, appVars>>

NextDiet == \E goal \in Goals : CallDietPlan(goal)

SpecDiet == InitDiet /\ [][NextDiet]_vars

(***************************************************************************)
(* SpecSearch: each adapter on every outcome of the search call.           *)
(***************************************************************************)
MaxResults == 3

Dict(url, title, content) ==
    [tag |-> "dict", url |-> url, title |-> title, content |-> content]

WatchUrl == <<"https://www.", "youtube.com/", "watch", "?v=abc">>
ShortUrl == <<"https://", "youtu.be/", "xyz">>
ShortsUrl == <<"https://www.", "youtube.com/", "shorts/", "q1">>
BlogUrl == <<"https://fit.example/", "watch", "/youtube.com/">>

\* The result records the service can put in its list.
ResultItems ==
    { Dict(Str(WatchUrl), Str(<<"Leg Day">>), Str(<<"a video">>)),
      Dict(Str(ShortUrl), Absent, Absent),
      Dict(Str(ShortsUrl), Str(<<"Shorts">>), Str(<<>>)),
      Dict(Str(BlogUrl), None, Str(<<"95 kcal per 100 g">>)),
      Dict(Absent, Str(<<"No link">>), None),
      Dict(None, Absent, Str(<<"52 kcal">>)),
      Dict(Absent, Absent, Number("95")),
      NotADict }

ListOf(items) == [tag |-> "list", str |-> <<>>, items |-> items]

ResultValues ==
    { [tag |-> "none", str |-> <<>>, items |-> <<>>],
      [tag |-> "str", str |-> <<>>, items |-> <<>>],
      [tag |-> "str", str |-> <<"HTTPError('401')">>, items |-> <<>>] }
    \cup { ListOf(items) : items \in UNION { [1..n -> ResultItems] : n \in 0..MaxResults } }

Worlds ==
    { [api_key |-> FALSE, fails |-> FALSE, results |-> ListOf(<<>>)],
      [api_key |-> TRUE, fails |-> TRUE, results |-> ListOf(<<>>)] }
    \cup { [api_key |-> TRUE, fails |-> FALSE, results |-> r] : r \in ResultValues }

WorkoutTypes == {"HIIT Cardio", "Rest"}
FoodItems == {"banana"}

Adapters == {"find_youtube_workout_video", "get_calories_for_food"}

InitSearch ==
    /\ tavily \in Worlds
    /\ lookup = NoLookups
    /\ AppIdle
    /\ args = NoArgs
    /\ plans = [g \in Goals |-> NoPlan]

FindVideo(workout_type) ==
    /\ lookup["find_youtube_workout_video"] = NoCall
    /\ lookup' = [lookup EXCEPT !["find_youtube_workout_video"] =
                     [arg |-> workout_type,
                      result |-> find_youtube_workout_video(workout_type, tavily)]]
    /\ UNCHANGED <<tavily, dietVars, appVars>>

GetCalories(food_item) ==
    /\ lookup["get_calories_for_food"] = NoCall
    /\ lookup' = [lookup EXCEPT !["get_calories_for_food"] =
                     [arg |-> food_item,
                      result |-> get_calories_for_food(food_item, tavily)]]
    /\ UNCHANGED <<tavily, dietVars, appVars>>

NextSearch ==
    \/ \E w \in WorkoutTypes : FindVideo(w)
    \/ \E f \in FoodItems : GetCalories(f)

SpecSearch == InitSearch /\ [][NextSearch]_vars

(***************************************************************************)
(* Spec: requests of the three handlers on two sessions, interleaved.      *)
(***************************************************************************)
Init ==
    /\ AppIdle
    /\ args = NoArgs
    /\ plans = [g \in Goals |-> NoPlan]
    /\ tavily = NoWorld
    /\ lookup = NoLookups

others == <<dietVars, searchVars>>

\* The UI fires a handler with the session id of its gr.State and the values of
\* its input components (lines 200-206); the handler calls get_session, whose
\* line 15 looks the id up: if session_id not in sessions.
Start(h, sid, profile, message) ==
    /\ pc[h] = "idle"
    /\ started < MaxRequests
    /\ started' = started + 1
    /\ req' = [req EXCEPT ![h] =
                  [NoRequest EXCEPT !.sid = sid, !.profile = profile,
                                    !.message = message,
                                    !.chat_history = chatbot[sid],
                                    !.after_render_error = renderFailed[sid]]]
    /\ pc' = [pc EXCEPT ![h] =
                 IF sid \in DOMAIN sessions THEN "return_session" ELSE "create"]
    /\ UNCHANGED <<sessions, heap, res, chatbot, turns, renderFailed, others>>

\* Lines 16-21: create_agent() returned and the new dict is stored under the id,
\* over whatever is stored there by now.
CreateSession(h) ==
    /\ pc[h] = "create"
    /\ LET ref == Len(heap) + 1
       IN  /\ heap' = Append(heap, new_session(ref))
           /\ sessions' = [s \in DOMAIN sessions \cup {req[h].sid} |->
                              IF s = req[h].sid THEN ref ELSE sessions[s]]
    /\ pc' = [pc EXCEPT ![h] = "return_session"]
    /\ UNCHANGED <<req, res, chatbot, turns, renderFailed, started, others>>

\* What every finished request leaves behind: the handler, the session id, whether
\* an exception left the handler and where it ended.
Finished(h, raised, at) ==
    [done |-> TRUE, handler |-> h, sid |-> req[h].sid, raised |-> raised, at |-> at,
     after_render_error |-> req[h].after_render_error]

\* The request of handler h is over.
finish(h) ==
    /\ pc' = [pc EXCEPT ![h] = "idle"]
    /\ req' = [req EXCEPT ![h] = NoRequest]

\* Line 17: create_agent() raised (no API key, hub.pull failed).  get_session is
\* called outside every try, so the exception leaves the handler.
CreateAgentRaises(h) ==
    /\ pc[h] = "create"
    /\ res' = Finished(h, TRUE, "create_agent")
    /\ finish(h)
    /\ UNCHANGED <<sessions, heap, chatbot, turns, renderFailed, started, others>>

\* Line 22: return sessions[session_id]; then the statements up to the call of
\* the agent.  generate_initial_plan writes user_details into the dict it got
\* (lines 94-97, before the try); respond_in_chat appends the user's message
\* to the transcript it was handed (line 136).  The prompt either handler builds
\* goes to the agent, whose answer is any answer.
ReturnSession(h) ==
    /\ pc[h] = "return_session"
    /\ LET ref == sessions[req[h].sid]
       IN  /\ req' = [req EXCEPT
                        ![h].session = ref,
                        ![h].profile = EmptyDetails,
                        ![h].chat_history =
                            IF h = "respond_in_chat"
                            THEN Append(req[h].chat_history,
                                        Message("user", req[h].message))
                            ELSE req[h].chat_history]
           /\ heap' = IF h = "generate_initial_plan"
                      THEN [heap EXCEPT ![ref].user_details = req[h].profile]
                      ELSE heap
    /\ pc' = [pc EXCEPT ![h] = "invoke"]
    /\ UNCHANGED <<sessions, res, chatbot, turns, renderFailed, started, others>>

\* Lines 112-126: the agent returned; the plan is rendered, plan_context is
\* written from the session's user_details and the parsed plan, and the seven
\* outputs go to the UI, the chat display being reset to the opening message.
GenerateReturns(response) ==
    LET h == "generate_initial_plan"
        raw_output == response_output(response)
        rendered == render_plan_from_json(raw_output)
        ref == req[h].session
    IN  /\ pc[h] = "invoke"
        /\ heap' = [heap EXCEPT ![ref].plan_context =
                       [written |-> TRUE, details |-> heap[ref].user_details,
                        plan |-> rendered.data]]
        /\ res' = Finished(h, FALSE, "return") @@
                  [raw_output |-> raw_output, rendered |-> TRUE,
                   diet_md |-> rendered.diet_md,
                   meal_plan_rows |-> rendered.meal_plan_rows,
                   workout_html |-> rendered.workout_html,
                   quote_text |-> rendered.quote_text,
                   fact_text |-> rendered.fact_text]
        /\ chatbot' = [chatbot EXCEPT ![req[h].sid] = <<InitialChatMessage>>]
        /\ renderFailed' = [renderFailed EXCEPT ![req[h].sid] =
                               @ \/ Head(rendered.diet_md) = "Error formatting plan: "]
        /\ finish(h)
        /\ UNCHANGED <<sessions, turns, started, others>>

\* Lines 128-131: the agent raised; the handler returns the error message and
\* empty outputs.
GenerateInvokeRaises ==
    LET h == "generate_initial_plan"
    IN  /\ pc[h] = "invoke"
        /\ res' = Finished(h, FALSE, "except") @@
                  [raw_output |-> NotJson, rendered |-> FALSE,
                   diet_md |-> <<"An error occurred: ", "AgentError">>,
                   meal_plan_rows |-> 0, workout_html |-> <<>>,
                   quote_text |-> <<>>, fact_text |-> <<>>]
        /\ chatbot' = [chatbot EXCEPT ![req[h].sid] = <<>>]
        /\ finish(h)
        /\ UNCHANGED <<sessions, heap, turns, renderFailed, started, others>>

\* The end of respond_in_chat: the assistant's message is appended to the handed
\* transcript, which is returned to the chat display (lines 146-150).
chat_return(h, content, at) ==
    LET history == Append(req[h].chat_history, Message("assistant", content))
    IN  /\ res' = Finished(h, FALSE, at) @@ [chat_history |-> history]
        /\ chatbot' = [chatbot EXCEPT ![req[h].sid] = history]
        /\ turns' = [turns EXCEPT ![req[h].sid] =
                        @ \o <<Message("user", req[h].message),
                               Message("assistant", content)>>]
        /\ finish(h)
        /\ UNCHANGED <<sessions, heap, renderFailed, started, others>>

\* Lines 144-146: response.get("output", "Sorry, I had trouble.").
ChatReturns(reply) ==
    /\ pc["respond_in_chat"] = "invoke"
    /\ chat_return("respond_in_chat", reply, "return")

\* Lines 147-148: the agent raised.
ChatInvokeRaises ==
    /\ pc["respond_in_chat"] = "invoke"
    /\ chat_return("respond_in_chat", "An error occurred: AgentError", "except")

\* Line 154: the agent returned; its output goes to the calorie box.
LookupReturns(output) ==
    LET h == "handle_calorie_lookup"
    IN  /\ pc[h] = "invoke"
        /\ res' = Finished(h, FALSE, "return") @@ [output |-> output]
        /\ finish(h)
        /\ UNCHANGED <<sessions, heap, chatbot, turns, renderFailed, started, others>>

\* Line 154: the agent raised; nothing catches it.
LookupInvokeRaises ==
    LET h == "handle_calorie_lookup"
    IN  /\ pc[h] = "invoke"
        /\ res' = Finished(h, TRUE, "invoke")
        /\ finish(h)
        /\ UNCHANGED <<sessions, heap, chatbot, turns, renderFailed, started, others>>

Next ==
    \/ \E sid \in SessionIds, profile \in Profiles :
          Start("generate_initial_plan", sid, profile, "")
    \/ \E sid \in SessionIds, m \in UserMessages :
          Start("respond_in_chat", sid, EmptyDetails, m)
    \/ \E sid \in SessionIds, f \in FoodItemsAsked :
          Start("handle_calorie_lookup", sid, EmptyDetails, f)
    \/ \E h \in Handlers : CreateSession(h)
    \/ \E h \in Handlers : CreateAgentRaises(h)
    \/ \E h \in Handlers : ReturnSession(h)
    \/ \E response \in Responses : GenerateReturns(response)
    \/ GenerateInvokeRaises
    \/ \E reply \in Replies : ChatReturns(reply)
    \/ ChatInvokeRaises
    \/ \E output \in {"105 kcal"} : LookupReturns(output)
    \/ LookupInvokeRaises

Spec == Init /\ [][Next]_vars

(***************************************************************************)
(* Claims about the calculator (SpecDiet).                                 *)
(***************************************************************************)
Called(goal) == plans[goal] # NoPlan

\* calories * CalUnit of the run for `goal` on the current inputs, unrounded.
RunCalories160(goal) ==
    calories160(goal, args.weight_kg, args.height_cm, args.age, args.gender,
                args.activity_level)

\* C1 as stated: with the same metrics and activity level, daily_calories of the
\* muscle_gain plan minus daily_calories of the maintenance plan equals 800.
C1_OffsetDifference800 ==
    (Called("muscle_gain") /\ Called("maintenance")) =>
        plans["muscle_gain"].daily_calories - plans["maintenance"].daily_calories = 800

\* C1 amended: with the same metrics and activity level, daily_calories of the
\* muscle_gain plan minus daily_calories of the maintenance plan equals 400 (the
\* one +400 offset of muscle_gain; maintenance has none).
C1_OffsetDifference400 ==
    (Called("muscle_gain") /\ Called("maintenance")) =>
        plans["muscle_gain"].daily_calories - plans["maintenance"].daily_calories = 400

\* C1 witness: both plans computed for one set of metrics whose calories fall
\* exactly on a half (1820 * 1.375 = 2502.5), where the rounding rule decides.
C1_Witness ==
    /\ Called("muscle_gain") /\ Called("maintenance")
    /\ (2 * RunCalories160("maintenance")) % CalUnit = 0
    /\ RunCalories160("maintenance") % CalUnit # 0

\* The share of the calories (in percent) that a goal's carbs formula would use,
\* with p standing for the share of weight_loss, which the claim leaves open.
CarbsPercent(goal, p) ==
    IF goal = "weight_loss" THEN p ELSE IF goal = "muscle_gain" THEN 40 ELSE 45

FatPercent(goal) == IF goal = "muscle_gain" THEN 30 ELSE 25

\* C2 as stated: for every goal, carbs_g and fat_g are a percentage of the
\* goal-adjusted calories divided by 4 kcal/g and 9 kcal/g, so that carbs_g of
\* weight_loss is not a constant: some share p in 1..100 explains it.
C2_CarbsFromCaloriesEveryGoal ==
    \E p \in 1..100 : \A g \in Goals :
        Called(g) =>
            /\ plans[g].macros.carbs_g =
                  round(RunCalories160(g) * CarbsPercent(g, p), CalUnit * 100 * 4)
            /\ plans[g].macros.fat_g =
                  round(RunCalories160(g) * FatPercent(g), CalUnit * 100 * 9)

\* C2 amended: for maintenance, muscle_gain and any unrecognized goal carbs_g is
\* 45% (muscle_gain: 40%) of the goal-adjusted calories divided by 4, and for
\* every goal fat_g is 25% (muscle_gain: 30%) of them divided by 9; for
\* weight_loss carbs_g is the constant 150 whatever the inputs are.
C2_CarbsFromCaloriesExceptWeightLoss ==
    \A g \in Goals :
        Called(g) =>
            /\ g # "weight_loss" =>
                  plans[g].macros.carbs_g =
                      round(RunCalories160(g) * CarbsPercent(g, 0), CalUnit * 100 * 4)
            /\ g = "weight_loss" => plans[g].macros.carbs_g = 150
            /\ plans[g].macros.fat_g =
                  round(RunCalories160(g) * FatPercent(g), CalUnit * 100 * 9)

\* C2 witness: a weight_loss plan and a maintenance plan for the same metrics,
\* with positive calories and a maintenance carbs_g other than 150.
C2_Witness ==
    /\ Called("weight_loss") /\ Called("maintenance") /\ Called("bulk")
    /\ plans["weight_loss"].daily_calories > 0
    /\ plans["maintenance"].macros.carbs_g # 150
    /\ plans["weight_loss"].macros.carbs_g = 150

\* C3 as stated: with positive weight, height and age, every returned macro is
\* an integer greater than or equal to zero, also when the goal-adjusted
\* calories are negative.
C3_MacrosNonNegativeIntegers ==
    \A g \in Goals :
        Called(g) =>
            \A k \in {"protein_g", "carbs_g", "fat_g"} :
                plans[g].macros[k] \in Int /\ plans[g].macros[k] >= 0

(***************************************************************************)
(* Claims about the search adapters (SpecSearch).                          *)
(***************************************************************************)
VideoCall == lookup["find_youtube_workout_video"]
CaloriesCall == lookup["get_calories_for_food"]

\* The service answered, and with a list.
ReturnedList == tavily.api_key /\ ~tavily.fails /\ tavily.results.tag = "list"

\* Result i is a record whose url is a str holding one of the two patterns.
MatchAt(items, i) ==
    /\ items[i].tag = "dict"
    /\ items[i].url.k = "str"
    /\ \/ Contains(<<"youtube.com/", "watch">>, items[i].url.v)
       \/ Contains(<<"youtu.be/">>, items[i].url.v)

\* Result j is a record with no url field or a str url (what the service sends).
WellFormedAt(items, j) == items[j].tag = "dict" /\ items[j].url.k \in {"absent", "str"}

\* Result i is the first match, every result before it being well formed.
FirstMatch(items, i) ==
    /\ MatchAt(items, i)
    /\ \A j \in 1..(i - 1) : WellFormedAt(items, j) /\ ~MatchAt(items, j)

\* '[title](url)' of a record, the title defaulting to '<workout_type> Workout Video'.
LinkOf(item, workout_type) ==
    <<"[">>
    \o (CASE item.title.k = "absent" -> <<workout_type, " Workout Video">>
          [] item.title.k = "none" -> <<"None">>
          [] OTHER -> item.title.v)
    \o <<"](">> \o item.url.v \o <<")">>

\* C4: find_youtube_workout_video scans the results in the order returned and
\* returns '[title](url)' of the first result whose url holds 'youtube.com/watch'
\* or 'youtu.be/', wherever it stands and whatever follows it; when the list is
\* empty or no result has such a url (results with no url field included) it
\* returns a string that begins 'Could not find'.
C4_FirstYoutubeMatchWins ==
    (VideoCall # NoCall /\ ReturnedList) =>
        LET items == tavily.results.items
            r == VideoCall.result
        IN  /\ ~r.raised /\ r.type = "str"
            /\ \A i \in 1..Len(items) :
                  FirstMatch(items, i) => r.value = LinkOf(items[i], VideoCall.arg)
            /\ (\A i \in 1..Len(items) : ~FirstMatch(items, i)) =>
                  (r.value # <<>> /\ Head(r.value) = CouldNotFind)

\* C4 witness: the first match stands at a later position than the first, a later
\* result matches too, and the link of the first match was returned.
C4_Witness ==
    /\ VideoCall # NoCall /\ ReturnedList
    /\ \E i, j \in 1..Len(tavily.results.items) :
          /\ 1 < i /\ i < j
          /\ FirstMatch(tavily.results.items, i)
          /\ MatchAt(tavily.results.items, j)
          /\ tavily.results.items[j].url # tavily.results.items[i].url
          /\ VideoCall.result.value = LinkOf(tavily.results.items[i], VideoCall.arg)

\* The first result's content, when there is one, is a str or null: the outcomes
\* the claim lists (a service that sends a number as content is not among them).
ContentIsText ==
    (ReturnedList /\ tavily.results.items # <<>>) =>
        tavily.results.items[1].content.k # "int"

\* C5: find_youtube_workout_video and get_calories_for_food never raise: for
\* every outcome of the search call (transport exception, missing API key, empty
\* list, results lacking url or content, a value that is no list of records)
\* each call ends by returning, and what it returns is a string.
C5_AdaptersNeverRaise ==
    \A a \in Adapters :
        lookup[a] # NoCall =>
            /\ ~lookup[a].result.raised
            /\ (a = "find_youtube_workout_video" \/ ContentIsText) =>
                  lookup[a].result.type = "str"

\* C5 witness: the service answered with a str instead of a list, both adapters
\* were called, and each turned the AttributeError into its error string.
C5_Witness ==
    /\ tavily.api_key /\ ~tavily.fails
    /\ tavily.results.tag = "str" /\ tavily.results.str # <<>>
    /\ \A a \in Adapters :
          /\ lookup[a] # NoCall
          /\ ~lookup[a].result.raised
          /\ Len(lookup[a].result.value) = 3
          /\ lookup[a].result.value[1] = CouldNotFind
          /\ lookup[a].result.value[3] = "AttributeError"

(***************************************************************************)
(* Claims about the handlers and the session registry (Spec).              *)
(***************************************************************************)
\* The request that finished last is a generate_initial_plan that got an answer
\* from the agent and rendered it.
GeneratedPlan == res.done /\ res.handler = "generate_initial_plan" /\ res.at = "return"

\* C6 as stated: in generate_initial_plan, respond_in_chat and
\* handle_calorie_lookup a fault of the agent invocation or of the session/agent
\* creation is absorbed inside the handler and surfaced as text: no request ends
\* with the exception leaving its handler.
C6_HandlersAbsorbFaults == res.done => ~res.raised

ErrorFormattingPlan(diet_md) == Head(diet_md) = "Error formatting plan: "

LacksAKey(raw) == raw.json = "object" /\ \E k \in PlanKeys : k \notin DOMAIN raw.members

\* C7 as stated: when the final output is not valid JSON, or is valid JSON that
\* lacks diet_plan, workout_plan or motivational_content, render_plan_from_json
\* returns the 'Error formatting plan: ...' string in place of the plan.
C7_MissingKeysGiveErrorString ==
    (GeneratedPlan /\ (res.raw_output.json = "invalid" \/ LacksAKey(res.raw_output))) =>
        ErrorFormattingPlan(res.diet_md)

\* C7 amended: when the final output is not valid JSON, render_plan_from_json
\* returns the 'Error formatting plan: ...' string in place of the plan and does
\* not raise; when it is a JSON object that only lacks expected keys (its other
\* values being well formed) no error string is returned: the plan is rendered
\* with the defaults ('N/A', no meal rows, 'No workout plan generated.', '...').
\* Either way the session remains usable: it stays in the registry, and a
\* respond_in_chat or generate_initial_plan that follows on the same session id
\* returns.
C7_RenderErrorOnlyWhenUnparsable ==
    /\ GeneratedPlan =>
          LET raw == res.raw_output
              has(k) == k \in DOMAIN raw.members
          IN  /\ ~res.raised
              /\ raw.json = "invalid" =>
                    /\ ErrorFormattingPlan(res.diet_md)
                    /\ res.meal_plan_rows = 0 /\ res.workout_html = <<>>
                    /\ res.quote_text = <<>> /\ res.fact_text = <<>>
              /\ (raw.json = "object" /\ \A k \in DOMAIN raw.members : raw.members[k] = "ok") =>
                    /\ ~ErrorFormattingPlan(res.diet_md)
                    /\ ~has("diet_plan") =>
                          (res.diet_md[2] = "N/A" /\ res.meal_plan_rows = 0)
                    /\ ~has("workout_plan") =>
                          res.workout_html[2] = "<p>No workout plan generated.</p>"
                    /\ ~has("motivational_content") =>
                          (res.quote_text[2] = "..." /\ res.fact_text[2] = "...")
    /\ \A s \in SessionIds : renderFailed[s] => s \in DOMAIN sessions
    /\ (/\ res.done
        /\ res.handler \in {"generate_initial_plan", "respond_in_chat"}
        /\ res.after_render_error) => ~res.raised

\* C7 witness: a plan of the session could not be rendered, and a respond_in_chat
\* made on the same session id afterwards has returned.
C7_Witness ==
    /\ res.done /\ res.handler = "respond_in_chat"
    /\ res.after_render_error /\ renderFailed[res.sid]
    /\ ~res.raised
    /\ heap[sessions[res.sid]].plan_context.written
    /\ heap[sessions[res.sid]].plan_context.plan = NoData

\* What the registry holds for a session id, and the UI's transcript of it.
SessionView(s) ==
    IF s \in DOMAIN sessions
    THEN [present |-> TRUE, ref |-> sessions[s], dict |-> heap[sessions[s]],
          chat |-> chatbot[s]]
    ELSE [present |-> FALSE, ref |-> 0, dict |-> new_session(0), chat |-> chatbot[s]]

\* No two session ids hold the same dict or the same agent executor.
NoSharedObject ==
    \A a, b \in DOMAIN sessions :
        a # b => /\ sessions[a] # sessions[b]
                 /\ heap[sessions[a]].agent_executor # heap[sessions[b]].agent_executor

\* A step changes what is held for session id s only if it is a step of a request
\* carrying s.
OnlyOwnSessionChanges ==
    \A s \in SessionIds :
        SessionView(s)' # SessionView(s) =>
            \E h \in Handlers : pc'[h] # pc[h] /\ (req[h].sid = s \/ req'[h].sid = s)

\* C8: sessions are isolated: for two distinct session ids A and B and any
\* interleaving of the three handlers, a call carrying A leaves B's user_details,
\* plan_context and chat transcript unchanged, and no state object (the agent
\* executor included) is shared between the two sessions' entries.
C8_SessionsIsolated == []NoSharedObject /\ [][OnlyOwnSessionChanges]_vars

\* C8 witness: both sessions hold a generated plan, for different profiles, and
\* the request that finished last carried the other id than the first entry made.
C8_Witness ==
    /\ DOMAIN sessions = SessionIds
    /\ \A s \in SessionIds : heap[sessions[s]].plan_context.written
    /\ heap[sessions["A"]].user_details # heap[sessions["B"]].user_details
    /\ heap[sessions["A"]].plan_context # heap[sessions["B"]].plan_context
    /\ res.done /\ res.handler = "generate_initial_plan"
    /\ sessions[res.sid] = 2

\* C9 as stated: get_session creates the state of a session id once, on the first
\* access; every later access returns that same state, and an entry once created
\* is never removed or replaced, also when two first requests for the same new
\* id overlap.
C9_EntryCreatedOnce ==
    [][\A s \in DOMAIN sessions : s \in DOMAIN sessions' /\ sessions'[s] = sessions[s]]_vars

\* C10 as stated: after any sequence of respond_in_chat turns on a session, the
\* session's state holds the ordered transcript of those turns: per turn one
\* (user, message) pair followed by one (assistant, reply-or-error) pair.
C10_SessionHoldsTranscript ==
    \A s \in SessionIds :
        /\ turns[s] # <<>> => s \in DOMAIN sessions
        /\ s \in DOMAIN sessions => heap[sessions[s]].chat_history = turns[s]

\* generate_initial_plan is between two calls: none of its calls is under way.
GenerateIdle == pc["generate_initial_plan"] = "idle"

\* C11 as stated: after any sequence of generate_initial_plan calls (the agent
\* returning or raising) and respond_in_chat turns on one session, whenever the
\* session's plan_context is non-empty the user details recorded inside
\* plan_context equal the session's current user_details: a failed plan
\* generation does not leave user_details at the new profile while plan_context
\* still describes the plan of the previous profile.
C11_ContextDetailsAreCurrent ==
    GenerateIdle =>
        \A s \in DOMAIN sessions :
            LET session == heap[sessions[s]]
            IN  session.plan_context.written =>
                    session.plan_context.details = session.user_details

====
